---- MODULE Spec2Model ----
(***************************************************************************)
(* State-machine model of the iOS event-loop bridge,                       *)
(* src/platform_impl/ios/event_loop.rs: the EventLoop singleton, the       *)
(* EventLoopProxy with its CFRunLoopSource, the two control-flow           *)
(* observers and EventLoopHandler::handle_user_events, together with the   *)
(* host run loop (CFRunLoop) that drives them.                             *)
(***************************************************************************)
EXTENDS Integers, Sequences, FiniteSets, TLC

\* ------------------------------------------------------------- bounds
MaxProxies == 2      \* proxies ever created (create_proxy and clone)
MaxSends   == 3      \* successful send_event calls
MaxOther   == 1      \* observers registered by other components
MaxLoops   == 2      \* successful EventLoop::new calls the model follows
CFIndexBits == 2     \* width of CFIndex in the model (two's complement)

\* ---------------------------------------------------------- constants
Main    == "main"
Threads == {Main, "worker"}

CFIndexMax == 2 ^ (CFIndexBits - 1) - 1          \* CFIndex::max_value()
CFIndexMin == 0 - 2 ^ (CFIndexBits - 1)          \* CFIndex::min_value()
CFIndex    == CFIndexMin .. CFIndexMax

kCFRunLoopEntry         == "Entry"
kCFRunLoopBeforeWaiting == "BeforeWaiting"
kCFRunLoopAfterWaiting  == "AfterWaiting"
kCFRunLoopExit          == "Exit"
Activities == {kCFRunLoopEntry, kCFRunLoopBeforeWaiting,
               kCFRunLoopAfterWaiting, kCFRunLoopExit}

kCFRunLoopDefaultMode == "default"
UITrackingRunLoopMode == "tracking"
\* the modes the host runs the main run loop in; both are common modes
kCFRunLoopCommonModes == {kCFRunLoopDefaultMode, UITrackingRunLoopMode}

\* crate::event_loop::ControlFlow; WaitUntil, which carries an instant, is
\* left out
Poll == "Poll"
Wait == "Wait"
Exit == "Exit"
ControlFlow == {Poll, Wait, Exit}

ProxyIds  == 1 .. MaxProxies
SourceIds == 1 .. MaxProxies

VARIABLES
    SINGLETON_INIT,  \* static mut SINGLETON_INIT: bool
    created,         \* number of EventLoop::new calls that returned a loop
    eventLoop,       \* "none" | "alive" | "running" | "dropped"
    channel,         \* the mpsc queue: values sent and not yet received
    sent,            \* per proxy, the number of values it sent successfully
    delivered,       \* the values the callback received as UserEvent
    proxies,         \* proxy id -> [st, source, origin]
    sources,         \* source id -> [valid, sig, inv, rel, early]
    observers,       \* the run loop's observers, in registration order
    application,     \* UIApplication.sharedApplication is non-null
    handler,         \* AppState holds the boxed EventLoopHandler
    mainCalls,       \* [run, host]: invocations of UIApplicationMain
    rl,              \* the main run loop: [state, mode, wake, pending, called]
    draining,        \* handle_user_events is iterating the receiver
    owed,            \* a send hit the idle loop and no drain has started yet
    faulted,         \* an observer callback panicked: the process is gone
    control_flow,    \* the ControlFlow handed by reference to the callback
    done,            \* try_iter has returned None, the call is about to return
    queued,          \* the values queued when handle_user_events was called
    calls,           \* the callbacks made so far by the running call
    late,            \* values sent during the last drain were left queued
    ret              \* the last operation and its outcome: [op, arg, result]

vars == <<SINGLETON_INIT, created, eventLoop, channel, sent, delivered,
          proxies, sources, observers, application, handler, mainCalls, rl,
          draining, owed, faulted, control_flow, done, queued, calls, late,
          ret>>

\* ------------------------------------------------------------ helpers
NoProxy  == [st |-> "none", source |-> 0, origin |-> 0]
NoSource == [valid |-> FALSE, sig |-> FALSE, inv |-> 0, rel |-> 0,
             early |-> FALSE]

Ret(op, arg, result) == [op |-> op, arg |-> arg, result |-> result]

\* a step whose outcome no caller observes
Quiet == Ret("step", "", "")

\* the consumer end of the channel lives in the window target, which the
\* EventLoop owns until run() moves it into the EventLoopHandler
receiverAlive == eventLoop \in {"alive", "running"}

LiveProxies == {p \in ProxyIds : proxies[p].st = "live"}
UsedProxies == {p \in ProxyIds : proxies[p].st # "none"}
UsedSources == {s \in SourceIds : sources[s].inv > 0 \/ sources[s].rel > 0
                                   \/ sources[s].valid}

RECURSIVE SumSent(_, _)
SumSent(f, S) ==
    IF S = {} THEN 0
    ELSE LET p == CHOOSE x \in S : TRUE IN f[p] + SumSent(f, S \ {p})

\* the subsequence of q holding the values sent through proxy p
RECURSIVE Project(_, _)
Project(q, p) ==
    IF q = <<>> THEN <<>>
    ELSE IF Head(q)[1] = p THEN <<Head(q)[2]>> \o Project(Tail(q), p)
    ELSE Project(Tail(q), p)

Iota(n) == [i \in 1 .. n |-> i]

Min(a, b) == IF a < b THEN a ELSE b

\* ------------------------------------------- CoreFoundation, as called
\* CFRunLoopSourceCreate: the new source is the first unused id
CFRunLoopSourceCreate(srcs) ==
    CHOOSE s \in SourceIds :
        /\ srcs[s] = NoSource
        /\ \A t \in SourceIds : t < s => srcs[t] # NoSource

\* faulty variant: the source is created and never added to the run loop
CFRunLoopAddSource_skipped(srcs, s) == srcs

\* CFRunLoopAddSource(rl, source, kCFRunLoopCommonModes)
CFRunLoopAddSource(srcs, s) == [srcs EXCEPT ![s].valid = TRUE]

\* CFRunLoopSourceSignal: marks a valid source as ready to fire
CFRunLoopSourceSignal(srcs, s) ==
    IF srcs[s].valid THEN [srcs EXCEPT ![s].sig = TRUE] ELSE srcs

\* CFRunLoopSourceInvalidate: removes the source from the run loop
CFRunLoopSourceInvalidate(srcs, s) ==
    [srcs EXCEPT ![s] = [@ EXCEPT !.valid = FALSE, !.sig = FALSE,
                                  !.inv = Min(@ + 1, 2)]]

\* CFRelease of the proxy's reference; early records a release that came
\* before any invalidation
CFRelease(srcs, s) ==
    [srcs EXCEPT ![s] = [@ EXCEPT !.rel = Min(@ + 1, 2),
                                  !.early = @ \/ srcs[s].inv = 0]]

\* CFRunLoopWakeUp: leaves a wake-up pending for the run loop
CFRunLoopWakeUp(r) == [r EXCEPT !.wake = TRUE]

\* CFRunLoopAddObserver: observers are kept sorted by order; a new one goes
\* after every registered observer whose order is not greater
CFRunLoopAddObserver(obs, o) ==
    LET k == Cardinality({i \in 1 .. Len(obs) : obs[i].order <= o.order})
    IN  SubSeq(obs, 1, k) \o <<o>> \o SubSeq(obs, k + 1, Len(obs))

\* the observers of obs the run loop notifies of activity a in mode m
RECURSIVE Notified(_, _, _)
Notified(obs, m, a) ==
    IF obs = <<>> THEN <<>>
    ELSE (IF a \in Head(obs).activities /\ Head(obs).mode = m
          THEN <<Head(obs)>> ELSE <<>>) \o Notified(Tail(obs), m, a)

\* ----------------------------------------------------- EventLoop::new
\* faulty variant: the main-thread assertion is missing
assert_any_thread(t) == TRUE

\* assert_main_thread!
assert_main_thread(t) == t = Main

begin_observer ==
    [who |-> "begin",
     activities |-> {kCFRunLoopEntry, kCFRunLoopAfterWaiting},
     order |-> CFIndexMin, mode |-> kCFRunLoopDefaultMode]

\* faulty variant: the end observer is given the begin observer's order
end_observer_first ==
    [who |-> "end",
     activities |-> {kCFRunLoopExit, kCFRunLoopBeforeWaiting},
     order |-> CFIndexMin, mode |-> kCFRunLoopDefaultMode]

end_observer ==
    [who |-> "end",
     activities |-> {kCFRunLoopExit, kCFRunLoopBeforeWaiting},
     order |-> CFIndexMax, mode |-> kCFRunLoopDefaultMode]

\* faulty variant: the observers are left for a later moment
setup_observers_later(obs) == obs

setup_control_flow_observers(obs) ==
    CFRunLoopAddObserver(CFRunLoopAddObserver(obs, begin_observer),
                         end_observer)

\* faulty variant: the singleton assertion is missing
assert_nothing(init) == TRUE

\* assert!(!SINGLETON_INIT, ...)
assert_not_initialized(init) == ~init

\* user code runs on the main thread only while the run loop is not blocked
MainThreadRuns == rl.state # "waiting"

new(t) ==
    /\ ~faulted
    /\ t = Main => MainThreadRuns
    /\ IF ~assert_main_thread(t)
       THEN /\ ret' = Ret("new", t, "panic")
            /\ UNCHANGED <<SINGLETON_INIT, created, eventLoop, channel,
                           observers>>
       ELSE IF ~assert_not_initialized(SINGLETON_INIT)
       THEN /\ ret' = Ret("new", t, "panic")
            /\ UNCHANGED <<SINGLETON_INIT, created, eventLoop, channel,
                           observers>>
       ELSE /\ created < MaxLoops
            /\ SINGLETON_INIT' = TRUE
            /\ channel' = <<>>
            /\ observers' = setup_control_flow_observers(observers)
            /\ eventLoop' = "alive"
            /\ created' = created + 1
            /\ ret' = Ret("new", t, "ok")
    /\ UNCHANGED <<sent, delivered, proxies, sources, application, handler,
                   mainCalls, rl, draining, owed, faulted>>
    /\ UNCHANGED <<control_flow, done, queued, calls, late>>

\* the EventLoop goes out of scope before run(): the window target and with
\* it the receiver and everything still queued are destroyed
DropEventLoop ==
    /\ ~faulted
    /\ MainThreadRuns
    /\ eventLoop = "alive"
    /\ eventLoop' = "dropped"
    /\ channel' = <<>>
    /\ ret' = Quiet
    /\ UNCHANGED <<SINGLETON_INIT, created, sent, delivered, proxies,
                   sources, observers, application, handler, mainCalls, rl,
                   draining, owed, faulted>>
    /\ UNCHANGED <<control_flow, done, queued, calls, late>>

\* ----------------------------------------------------- EventLoop::run
\* faulty variant: the application assertion is missing
assert_any_application(app) == TRUE

\* assert_eq!(application, ptr::null_mut(), ...)
assert_no_application(app) == ~app

\* UIApplicationMain: the host takes the thread and runs the main run loop
UIApplicationMain(r) ==
    [r EXCEPT !.state = "top", !.mode = kCFRunLoopDefaultMode]

run ==
    /\ ~faulted
    /\ MainThreadRuns
    /\ eventLoop = "alive"
    /\ IF ~assert_no_application(application)
       THEN \* the panic unwinds out of run() and drops self
            /\ eventLoop' = "dropped"
            /\ channel' = <<>>
            /\ ret' = Ret("run", "", "panic")
            /\ UNCHANGED <<handler, application, mainCalls, rl>>
       ELSE /\ handler' = TRUE
            /\ eventLoop' = "running"
            /\ application' = TRUE
            /\ mainCalls' = [mainCalls EXCEPT !.run = @ + 1]
            /\ rl' = UIApplicationMain(rl)
            /\ ret' = Ret("run", "", "ok")
            /\ UNCHANGED channel
    /\ UNCHANGED <<SINGLETON_INIT, created, sent, delivered, proxies,
                   sources, observers, draining, owed, faulted>>
    /\ UNCHANGED <<control_flow, done, queued, calls, late>>

\* ------------------------------------------------------ EventLoopProxy
\* faulty variant: a clone takes the source pointer of the proxy it is cloned from
EventLoopProxy_shared(q, from) ==
    LET source == IF from = 0 THEN CFRunLoopSourceCreate(sources)
                  ELSE proxies[from].source IN
    /\ proxies[q].st = "none"
    /\ \A o \in ProxyIds : o < q => proxies[o].st # "none"
    /\ \E s \in SourceIds : sources[s] = NoSource
    /\ sources' = IF from = 0 THEN CFRunLoopAddSource(sources, source)
                  ELSE sources
    /\ rl' = CFRunLoopWakeUp(rl)
    /\ proxies' = [proxies EXCEPT
                     ![q] = [st |-> "live", source |-> source,
                             origin |-> from]]

\* EventLoopProxy::new: a fresh source, added to the common modes, and a
\* wake-up of the main run loop
EventLoopProxy_new(q, from) ==
    LET source == CFRunLoopSourceCreate(sources) IN
    /\ proxies[q].st = "none"
    /\ \A o \in ProxyIds : o < q => proxies[o].st # "none"
    /\ \E s \in SourceIds : sources[s] = NoSource
    /\ sources' = CFRunLoopAddSource(sources, source)
    /\ rl' = CFRunLoopWakeUp(rl)
    /\ proxies' = [proxies EXCEPT
                     ![q] = [st |-> "live", source |-> source,
                             origin |-> from]]

create_proxy(q) ==
    /\ ~faulted
    /\ MainThreadRuns
    /\ eventLoop = "alive"
    /\ EventLoopProxy_new(q, 0)
    /\ ret' = Quiet
    /\ UNCHANGED <<SINGLETON_INIT, created, eventLoop, channel, sent,
                   delivered, observers, application, handler, mainCalls,
                   draining, owed, faulted>>
    /\ UNCHANGED <<control_flow, done, queued, calls, late>>

clone(p, q) ==
    /\ ~faulted
    /\ proxies[p].st = "live"
    /\ EventLoopProxy_new(q, p)
    /\ ret' = Quiet
    /\ UNCHANGED <<SINGLETON_INIT, created, eventLoop, channel, sent,
                   delivered, observers, application, handler, mainCalls,
                   draining, owed, faulted>>
    /\ UNCHANGED <<control_flow, done, queued, calls, late>>

\* faulty variant: the reference is released before the source is invalidated
drop_release_first(p) ==
    /\ ~faulted
    /\ proxies[p].st = "live"
    /\ proxies' = [proxies EXCEPT ![p].st = "dropped"]
    /\ sources' = CFRunLoopSourceInvalidate(
                      CFRelease(sources, proxies[p].source),
                      proxies[p].source)
    /\ ret' = Quiet
    /\ UNCHANGED <<SINGLETON_INIT, created, eventLoop, channel, sent,
                   delivered, observers, application, handler, mainCalls,
                   rl, draining, owed, faulted>>
    /\ UNCHANGED <<control_flow, done, queued, calls, late>>

\* faulty variant: the values the proxy sent go with the proxy
drop_discards(p) ==
    /\ ~faulted
    /\ proxies[p].st = "live"
    /\ proxies' = [proxies EXCEPT ![p].st = "dropped"]
    /\ sources' = CFRelease(
                      CFRunLoopSourceInvalidate(sources, proxies[p].source),
                      proxies[p].source)
    /\ channel' = SelectSeq(channel, LAMBDA v : v[1] # p)
    /\ ret' = Quiet
    /\ UNCHANGED <<SINGLETON_INIT, created, eventLoop, sent, delivered,
                   observers, application, handler, mainCalls, rl, draining,
                   owed, faulted>>
    /\ UNCHANGED <<control_flow, done, queued, calls, late>>

\* Drop for EventLoopProxy: invalidate, then release
drop(p) ==
    /\ ~faulted
    /\ proxies[p].st = "live"
    /\ proxies' = [proxies EXCEPT ![p].st = "dropped"]
    /\ sources' = CFRelease(
                      CFRunLoopSourceInvalidate(sources, proxies[p].source),
                      proxies[p].source)
    /\ ret' = Quiet
    /\ UNCHANGED <<SINGLETON_INIT, created, eventLoop, channel, sent,
                   delivered, observers, application, handler, mainCalls,
                   rl, draining, owed, faulted>>
    /\ UNCHANGED <<control_flow, done, queued, calls, late>>

\* faulty variant: the send result is not looked at
SenderSendUnchecked(q, alive, v) == [ok |-> TRUE, q |-> Append(q, v)]

\* Sender::send: fails exactly when the receiver has been dropped
SenderSend(q, alive, v) ==
    IF alive THEN [ok |-> TRUE, q |-> Append(q, v)]
    ELSE [ok |-> FALSE, q |-> q]

\* faulty variant: the source is signaled and the loop woken before the
\* result of the send is looked at
send_event_wakes_always(p) ==
    LET r == SenderSend(channel, receiverAlive, <<p, sent[p] + 1>>) IN
    /\ ~faulted
    /\ proxies[p].st = "live"
    /\ sources' = CFRunLoopSourceSignal(sources, proxies[p].source)
    /\ rl' = CFRunLoopWakeUp(rl)
    /\ IF r.ok
       THEN /\ SumSent(sent, ProxyIds) < MaxSends
            /\ channel' = r.q
            /\ sent' = [sent EXCEPT ![p] = @ + 1]
            /\ owed' = (owed \/ (rl.state = "waiting" /\ handler))
            /\ ret' = Ret("send_event", p, "Ok")
       ELSE /\ ret' = Ret("send_event", p, "EventLoopClosed")
            /\ UNCHANGED <<channel, sent, owed>>
    /\ UNCHANGED <<SINGLETON_INIT, created, eventLoop, delivered, proxies,
                   observers, application, handler, mainCalls, draining,
                   faulted, control_flow, done, queued, calls, late>>

send_event(p) ==
    LET r == SenderSend(channel, receiverAlive, <<p, sent[p] + 1>>) IN
    /\ ~faulted
    /\ proxies[p].st = "live"
    /\ IF r.ok
       THEN /\ SumSent(sent, ProxyIds) < MaxSends
            /\ channel' = r.q
            /\ sent' = [sent EXCEPT ![p] = @ + 1]
            /\ sources' = CFRunLoopSourceSignal(sources, proxies[p].source)
            /\ rl' = CFRunLoopWakeUp(rl)
            /\ owed' = (owed \/ (rl.state = "waiting" /\ handler))
            /\ ret' = Ret("send_event", p, "Ok")
       ELSE /\ ret' = Ret("send_event", p, "EventLoopClosed")
            /\ UNCHANGED <<channel, sent, sources, rl, owed>>
    /\ UNCHANGED <<SINGLETON_INIT, created, eventLoop, delivered, proxies,
                   observers, application, handler, mainCalls, draining,
                   faulted, control_flow, done, queued, calls, late>>

\* ------------------------------------------------- control-flow observers
\* faulty variant: the entry activity is treated like a wake-up
begin_handler_entry_wakes(activity) ==
    CASE activity \in {kCFRunLoopAfterWaiting, kCFRunLoopEntry} ->
             "handle_wakeup_transition"
      [] OTHER -> "unreachable"

\* faulty variant: the entry activity is passed over in silence
begin_handler_entry_ignored(activity) ==
    CASE activity = kCFRunLoopAfterWaiting -> "handle_wakeup_transition"
      [] activity = kCFRunLoopEntry        -> "ignored"
      [] OTHER                             -> "unreachable"

control_flow_begin_handler(activity) ==
    CASE activity = kCFRunLoopAfterWaiting -> "handle_wakeup_transition"
      [] activity = kCFRunLoopEntry        -> "unimplemented"
      [] OTHER                             -> "unreachable"

control_flow_end_handler(activity) ==
    CASE activity = kCFRunLoopBeforeWaiting -> "handle_events_cleared"
      [] activity = kCFRunLoopExit          -> "unimplemented"
      [] OTHER                              -> "unreachable"

\* unimplemented!() and unreachable!() panic inside the extern "C" callback
Panics(outcome) == outcome \in {"unimplemented", "unreachable"}

\* AppState::handle_events_cleared flushes the pending user events through
\* the registered handler's handle_user_events
AppState_handle_events_cleared(hasHandler) == hasHandler

\* faulty variant: the newest value is received first
try_recv_newest(q) ==
    IF q = <<>> THEN [some |-> FALSE, v |-> <<>>, q |-> q]
    ELSE [some |-> TRUE, v |-> q[Len(q)], q |-> SubSeq(q, 1, Len(q) - 1)]

\* Receiver::try_recv, the step of try_iter
try_recv(q) ==
    IF q = <<>> THEN [some |-> FALSE, v |-> <<>>, q |-> q]
    ELSE [some |-> TRUE, v |-> Head(q), q |-> Tail(q)]

\* faulty variant: Receiver::iter, which waits for a value on an empty channel
iter(q) == [next |-> try_recv(q), blocks |-> q = <<>>]

\* Receiver::try_iter: next() is try_recv().ok() and never waits
try_iter(q) == [next |-> try_recv(q), blocks |-> FALSE]

\* faulty variant: the loop is left once the callback has asked for the exit
for_event_until_exit(r) == r.some /\ control_flow # Exit

\* faulty variant: the loop takes no more values than were queued at the call
for_event_queued(r) == r.some /\ calls < queued

\* for event in ...try_iter(): the body runs for every Some, the loop ends at
\* the first None
for_event_in(r) == r.some

\* faulty variant: every callback is handed a ControlFlow of its own
fresh_control_flow(cf) == Poll

\* the control_flow argument of (self.f)(...): the reference the call got
callback_control_flow(cf) == cf

\* the user callback self.f handling one UserEvent: it may send one value
\* through a proxy it holds (send, 0 for none) and leaves a ControlFlow (cf)
Callbacks == [send : {0} \cup ProxyIds, cf : ControlFlow]

\* the callback argument of the turns that call no callback
NoCallback == [send |-> 0, cf |-> Poll]

\* EventLoopHandler::handle_user_events: one turn of the for loop, which
\* hands the received value to the callback f or ends on an empty channel,
\* and the return of the call after the loop has ended
handle_user_events(f) ==
    LET it == try_iter(channel)
        r  == it.next
        cf == callback_control_flow(control_flow)
        s  == IF f.send = 0 THEN [ok |-> FALSE, q |-> r.q]
              ELSE SenderSend(r.q, receiverAlive,
                              <<f.send, sent[f.send] + 1>>)
    IN
    /\ ~faulted
    /\ draining
    /\ IF done
       THEN /\ f = NoCallback
            /\ draining' = FALSE
            /\ done' = FALSE
            /\ queued' = 0
            /\ calls' = 0
            /\ late' = (channel # <<>>)
            /\ ret' = Ret("handle_user_events", calls, "returned")
            /\ UNCHANGED <<delivered, channel, sent, sources, rl,
                           control_flow>>
       ELSE IF for_event_in(r)
       THEN /\ f.send # 0 => /\ proxies[f.send].st = "live"
                             /\ SumSent(sent, ProxyIds) < MaxSends
            /\ delivered' = Append(delivered, r.v)
            /\ channel' = s.q
            /\ IF s.ok
               THEN /\ sent' = [sent EXCEPT ![f.send] = @ + 1]
                    /\ sources' = CFRunLoopSourceSignal(
                                      sources, proxies[f.send].source)
                    /\ rl' = CFRunLoopWakeUp(rl)
               ELSE UNCHANGED <<sent, sources, rl>>
            /\ control_flow' = f.cf
            /\ calls' = calls + 1
            /\ late' = (late /\ s.q # <<>>)
            /\ ret' = Ret("callback", [send |-> f.send, cf |-> cf], f.cf)
            /\ UNCHANGED <<draining, done, queued>>
       ELSE /\ f = NoCallback
            /\ ~it.blocks
            /\ done' = TRUE
            /\ ret' = Quiet
            /\ UNCHANGED <<delivered, channel, sent, sources, rl,
                           control_flow, draining, queued, calls, late>>
    /\ UNCHANGED <<SINGLETON_INIT, created, eventLoop, proxies, observers,
                   application, handler, mainCalls, owed, faulted>>

\* ------------------------------------------------------ the host run loop
\* the signaled valid sources are performed (event_loop_proxy_handler does
\* nothing) and are no longer signaled
CFRunLoopDoSources0(srcs) ==
    [s \in SourceIds |->
        IF srcs[s].valid THEN [srcs[s] EXCEPT !.sig = FALSE] ELSE srcs[s]]

Called(o) == [who |-> o.who, order |-> o.order]

StartCallout(r, a) ==
    [r EXCEPT !.state = "callout", !.activity = a,
              !.pending = Notified(observers, r.mode, a), !.called = {}]

\* another component adds an observer of its own to the default mode
RegisterOther(a, ord) ==
    /\ ~faulted
    /\ MainThreadRuns
    /\ Cardinality({i \in 1 .. Len(observers) :
                       observers[i].who = "other"}) < MaxOther
    /\ observers' = CFRunLoopAddObserver(observers,
                        [who |-> "other", activities |-> {a},
                         order |-> ord, mode |-> kCFRunLoopDefaultMode])
    /\ ret' = Quiet
    /\ UNCHANGED <<SINGLETON_INIT, created, eventLoop, channel, sent,
                   delivered, proxies, sources, application, handler,
                   mainCalls, rl, draining, owed, faulted>>
    /\ UNCHANGED <<control_flow, done, queued, calls, late>>

\* the embedding application calls UIApplicationMain itself
HostApplicationMain ==
    /\ ~faulted
    /\ ~application
    /\ rl.state = "off"
    /\ application' = TRUE
    /\ mainCalls' = [mainCalls EXCEPT !.host = @ + 1]
    /\ rl' = UIApplicationMain(rl)
    /\ ret' = Quiet
    /\ UNCHANGED <<SINGLETON_INIT, created, eventLoop, channel, sent,
                   delivered, proxies, sources, observers, handler,
                   draining, owed, faulted>>
    /\ UNCHANGED <<control_flow, done, queued, calls, late>>

\* the host runs the loop in another mode (tracking while a touch is
\* followed, default otherwise)
HostSwitchMode ==
    /\ ~faulted
    /\ rl.state = "top"
    /\ rl' = [rl EXCEPT !.mode = IF @ = kCFRunLoopDefaultMode
                                 THEN UITrackingRunLoopMode
                                 ELSE kCFRunLoopDefaultMode]
    /\ ret' = Quiet
    /\ UNCHANGED <<SINGLETON_INIT, created, eventLoop, channel, sent,
                   delivered, proxies, sources, observers, application,
                   handler, mainCalls, draining, owed, faulted>>
    /\ UNCHANGED <<control_flow, done, queued, calls, late>>

\* the run loop is entered or left in its current mode and notifies the
\* observers that asked for that activity
HostEntryExit(a) ==
    /\ ~faulted
    /\ rl.state = "top"
    /\ Notified(observers, rl.mode, a) # <<>>
    /\ rl' = StartCallout(rl, a)
    /\ ret' = Quiet
    /\ UNCHANGED <<SINGLETON_INIT, created, eventLoop, channel, sent,
                   delivered, proxies, sources, observers, application,
                   handler, mainCalls, draining, owed, faulted>>
    /\ UNCHANGED <<control_flow, done, queued, calls, late>>

\* one pass of the loop: the signaled sources fire, then the loop is about
\* to wait and notifies its BeforeWaiting observers
HostBeforeWaiting ==
    /\ ~faulted
    /\ rl.state = "top"
    /\ sources' = CFRunLoopDoSources0(sources)
    /\ rl' = StartCallout(rl, kCFRunLoopBeforeWaiting)
    /\ ret' = Quiet
    /\ UNCHANGED <<SINGLETON_INIT, created, eventLoop, channel, sent,
                   delivered, proxies, observers, application, handler,
                   mainCalls, draining, owed, faulted>>
    /\ UNCHANGED <<control_flow, done, queued, calls, late>>

\* the run loop calls the next observer of the running callout
HostCallout ==
    LET o == Head(rl.pending)
        outcome == CASE o.who = "begin" ->
                            control_flow_begin_handler(rl.activity)
                     [] o.who = "end" ->
                            control_flow_end_handler(rl.activity)
                     [] OTHER -> "other"
        drains == /\ outcome = "handle_events_cleared"
                  /\ AppState_handle_events_cleared(handler)
    IN
    /\ ~faulted
    /\ rl.state = "callout"
    /\ ~draining
    /\ rl.pending # <<>>
    /\ rl' = [rl EXCEPT !.pending = Tail(@), !.called = @ \cup {Called(o)}]
    /\ faulted' = Panics(outcome)
    /\ draining' = drains
    /\ queued' = IF drains THEN Len(channel) ELSE queued
    /\ owed' = (owed /\ ~drains)
    /\ ret' = Ret(o.who, rl.activity, outcome)
    /\ UNCHANGED <<SINGLETON_INIT, created, eventLoop, channel, sent,
                   delivered, proxies, sources, observers, application,
                   handler, mainCalls, control_flow, done, calls, late>>

\* every observer of the callout has returned
HostCalloutEnd ==
    /\ ~faulted
    /\ rl.state = "callout"
    /\ ~draining
    /\ rl.pending = <<>>
    /\ rl' = [rl EXCEPT
                !.state = IF rl.activity = kCFRunLoopBeforeWaiting
                          THEN "waiting" ELSE "top",
                !.activity = "none", !.called = {}]
    /\ ret' = Quiet
    /\ UNCHANGED <<SINGLETON_INIT, created, eventLoop, channel, sent,
                   delivered, proxies, sources, observers, application,
                   handler, mainCalls, draining, owed, faulted, control_flow,
                   done, queued, calls, late>>

\* the blocked loop is woken by the pending CFRunLoopWakeUp
HostWakeUp ==
    /\ ~faulted
    /\ rl.state = "waiting"
    /\ rl.wake
    /\ rl' = StartCallout([rl EXCEPT !.wake = FALSE],
                          kCFRunLoopAfterWaiting)
    /\ ret' = Quiet
    /\ UNCHANGED <<SINGLETON_INIT, created, eventLoop, channel, sent,
                   delivered, proxies, sources, observers, application,
                   handler, mainCalls, draining, owed, faulted>>
    /\ UNCHANGED <<control_flow, done, queued, calls, late>>

\* the blocked loop is woken by an input of the host (a touch, a timer)
HostEvent ==
    /\ ~faulted
    /\ rl.state = "waiting"
    /\ rl' = StartCallout(rl, kCFRunLoopAfterWaiting)
    /\ ret' = Quiet
    /\ UNCHANGED <<SINGLETON_INIT, created, eventLoop, channel, sent,
                   delivered, proxies, sources, observers, application,
                   handler, mainCalls, draining, owed, faulted>>
    /\ UNCHANGED <<control_flow, done, queued, calls, late>>

\* ------------------------------------------------------- specification
Init ==
    /\ SINGLETON_INIT = FALSE
    /\ created = 0
    /\ eventLoop = "none"
    /\ channel = <<>>
    /\ sent = [p \in ProxyIds |-> 0]
    /\ delivered = <<>>
    /\ proxies = [p \in ProxyIds |-> NoProxy]
    /\ sources = [s \in SourceIds |-> NoSource]
    /\ observers = <<>>
    /\ application = FALSE
    /\ handler = FALSE
    /\ mainCalls = [run |-> 0, host |-> 0]
    /\ rl = [state |-> "off", mode |-> kCFRunLoopDefaultMode,
             wake |-> FALSE, activity |-> "none", pending |-> <<>>,
             called |-> {}]
    /\ draining = FALSE
    /\ owed = FALSE
    /\ faulted = FALSE
    /\ control_flow = Poll
    /\ done = FALSE
    /\ queued = 0
    /\ calls = 0
    /\ late = FALSE
    /\ ret = Quiet

Next ==
    \/ \E t \in Threads : new(t)
    \/ DropEventLoop
    \/ run
    \/ \E q \in ProxyIds : create_proxy(q)
    \/ \E p, q \in ProxyIds : clone(p, q)
    \/ \E p \in ProxyIds : drop(p)
    \/ \E p \in ProxyIds : send_event(p)
    \/ \E f \in Callbacks : handle_user_events(f)
    \/ \E a \in {kCFRunLoopBeforeWaiting, kCFRunLoopAfterWaiting} :
          \E ord \in CFIndex : RegisterOther(a, ord)
    \/ HostApplicationMain
    \/ HostSwitchMode
    \/ \E a \in {kCFRunLoopEntry, kCFRunLoopExit} : HostEntryExit(a)
    \/ HostBeforeWaiting
    \/ HostCallout
    \/ HostCalloutEnd
    \/ HostWakeUp
    \/ HostEvent

Spec == Init /\ [][Next]_vars

\* the proxies and the channel: the loop is made on the main thread, the
\* host cycles it in the default mode and the callback only takes the value
NextProxy ==
    \/ new(Main)
    \/ DropEventLoop
    \/ run
    \/ \E q \in ProxyIds : create_proxy(q)
    \/ \E p \in ProxyIds : drop(p)
    \/ \E p \in ProxyIds : send_event(p)
    \/ handle_user_events(NoCallback)
    \/ HostApplicationMain
    \/ HostBeforeWaiting
    \/ HostCallout
    \/ HostCalloutEnd
    \/ HostWakeUp
    \/ HostEvent

SpecProxy == Init /\ [][NextProxy]_vars

\* the proxies, their clones and their sources, with the run loop never
\* cycled
NextClone ==
    \/ new(Main)
    \/ DropEventLoop
    \/ run
    \/ HostApplicationMain
    \/ \E q \in ProxyIds : create_proxy(q)
    \/ \E p, q \in ProxyIds : clone(p, q)
    \/ \E p \in ProxyIds : drop(p)
    \/ \E p \in ProxyIds : send_event(p)

SpecClone == Init /\ [][NextClone]_vars

\* the loop's life cycle and the observers, with no proxy in use
NextHost ==
    \/ \E t \in Threads : new(t)
    \/ DropEventLoop
    \/ run
    \/ handle_user_events(NoCallback)
    \/ \E a \in {kCFRunLoopBeforeWaiting, kCFRunLoopAfterWaiting} :
          \E ord \in CFIndex : RegisterOther(a, ord)
    \/ HostApplicationMain
    \/ HostSwitchMode
    \/ \E a \in {kCFRunLoopEntry, kCFRunLoopExit} : HostEntryExit(a)
    \/ HostBeforeWaiting
    \/ HostCallout
    \/ HostCalloutEnd
    \/ HostEvent

SpecHost == Init /\ [][NextHost]_vars

\* the drain: one loop started by run(), its proxies sending from other
\* threads and from the callback, the host cycling it in the default mode
NextDrain ==
    \/ new(Main)
    \/ run
    \/ \E q \in ProxyIds : create_proxy(q)
    \/ \E p \in ProxyIds : send_event(p)
    \/ \E f \in Callbacks : handle_user_events(f)
    \/ HostBeforeWaiting
    \/ HostCallout
    \/ HostCalloutEnd
    \/ HostWakeUp

SpecDrain == Init /\ [][NextDrain]_vars

\* the call of handle_user_events is not starved of the main thread
SpecDrainFair ==
    SpecDrain /\ WF_vars(\E f \in Callbacks : handle_user_events(f))

\* the loop in both of the host's modes, with the callback only taking the
\* value
NextModes ==
    \/ new(Main)
    \/ run
    \/ \E q \in ProxyIds : create_proxy(q)
    \/ \E p \in ProxyIds : send_event(p)
    \/ handle_user_events(NoCallback)
    \/ HostSwitchMode
    \/ HostBeforeWaiting
    \/ HostCallout
    \/ HostCalloutEnd
    \/ HostWakeUp
    \/ HostEvent

SpecModes == Init /\ [][NextModes]_vars

\* ------------------------------------------------------------- claims

C2_IdleSendDrainsInWakeCycle ==
    [][(rl.state # "waiting" /\ rl'.state = "waiting") => ~owed']_vars

\* C3: at most one EventLoop::new ever succeeds; the flag is set by that
\* call and stays set whatever happens to the loop.
C3_AtMostOneLoop ==
    /\ created <= 1
    /\ SINGLETON_INIT <=> created = 1
    /\ (ret.op = "new" /\ eventLoop \in {"dropped", "running"}) =>
           ret.result = "panic"

\* a call on the main thread aborted after the only loop was dropped
C3_Witness ==
    /\ ret = Ret("new", Main, "panic")
    /\ eventLoop = "dropped"
    /\ created = 1

\* C4: EventLoop::new off the main thread aborts and touches neither the
\* flag, the channel nor the observers, so that the first call on the main
\* thread still succeeds afterwards.
C4_OffMainThreadAborts ==
    /\ []((ret.op = "new" /\ ret.arg # Main) => ret.result = "panic")
    /\ [][(ret'.op = "new" /\ ret'.arg # Main) =>
             UNCHANGED <<SINGLETON_INIT, created, eventLoop, channel,
                         observers>>]_vars
    /\ []((created = 0 /\ ~faulted /\ MainThreadRuns) =>
             ENABLED (new(Main) /\ ret'.result = "ok"))

\* an off-main-thread call aborted before any loop existed
C4_Witness ==
    /\ ret = Ret("new", "worker", "panic")
    /\ created = 0
    /\ ~SINGLETON_INIT
    /\ observers = <<>>

\* C5: send_event returns the loop-closed error exactly when the window
\* target is gone, through any proxy or clone, and a destroyed window
\* target never comes back.
C5_ClosedIffTargetGone ==
    /\ [](ret.op = "send_event" =>
             (ret.result = "EventLoopClosed" <=> ~receiverAlive))
    /\ [][eventLoop = "dropped" => eventLoop' = "dropped"]_vars

\* a clone got the error after the loop was destroyed
C5_Witness ==
    /\ ret.op = "send_event"
    /\ ret.result = "EventLoopClosed"
    /\ proxies[ret.arg].origin # 0
    /\ eventLoop = "dropped"

\* C6: every wake source is invalidated at most once and released at most
\* once, never released before it was invalidated; a dropped proxy's source
\* went through both exactly once, a live proxy's source through neither.
C6_InvalidatedAndReleasedOnce ==
    /\ \A s \in SourceIds :
          /\ sources[s].inv <= 1
          /\ sources[s].rel <= 1
          /\ ~sources[s].early
    /\ \A p \in ProxyIds :
          /\ proxies[p].st = "dropped" =>
                /\ sources[proxies[p].source].inv = 1
                /\ sources[proxies[p].source].rel = 1
          /\ proxies[p].st = "live" =>
                /\ sources[proxies[p].source].inv = 0
                /\ sources[proxies[p].source].rel = 0

\* a proxy and its clone have both been dropped
C6_Witness ==
    \E p, q \in ProxyIds :
        /\ proxies[q].origin = p
        /\ proxies[p].st = "dropped"
        /\ proxies[q].st = "dropped"

\* C7 as stated: a clone holds the wake source of the proxy it was cloned
\* from, and cloning registers no source of its own.
C7_CloneSharesSource ==
    \A q \in ProxyIds :
        (proxies[q].st # "none" /\ proxies[q].origin # 0) =>
            proxies[q].source = proxies[proxies[q].origin].source

\* C7 as amended: every proxy, cloned or not, holds a wake source of its
\* own, registered when the proxy was made; dropping a proxy invalidates
\* and releases that source only, and the sources of the proxies still
\* alive stay registered.
C7_EachProxyOwnsItsSource ==
    /\ \A p, q \in UsedProxies : p # q => proxies[p].source # proxies[q].source
    /\ Cardinality(UsedSources) = Cardinality(UsedProxies)
    /\ \A p \in ProxyIds :
          /\ proxies[p].st = "live" => sources[proxies[p].source].valid
          /\ proxies[p].st = "dropped" =>
                /\ ~sources[proxies[p].source].valid
                /\ sources[proxies[p].source].rel = 1

\* the first proxy was dropped and its clone still holds a registered source
C7_Witness ==
    \E p, q \in ProxyIds :
        /\ proxies[q].origin = p
        /\ proxies[p].origin = 0
        /\ proxies[p].st = "dropped"
        /\ proxies[q].st = "live"
        /\ sources[proxies[q].source].valid

\* C8: within one callout the bridge's begin observer runs before every
\* observer of another order, and its end observer runs after every
\* observer of another order.
C8_BridgeObserversBracketOthers ==
    rl.state = "callout" =>
        /\ (\E i \in 1 .. Len(rl.pending) : rl.pending[i].who = "begin") =>
               \A c \in rl.called :
                   c.who = "other" => c.order = begin_observer.order
        /\ (\E c \in rl.called : c.who = "end") =>
               \A i \in 1 .. Len(rl.pending) :
                   rl.pending[i].who = "other" =>
                       rl.pending[i].order = end_observer.order

\* the end observer ran in a callout in which an observer of another
\* component, with another order, ran as well
C8_Witness ==
    /\ rl.state = "callout"
    /\ rl.activity = kCFRunLoopBeforeWaiting
    /\ \E c \in rl.called : c.who = "end"
    /\ \E c \in rl.called : c.who = "other" /\ c.order # CFIndexMax

\* C9: a bridge observer called with any activity but its own (after-waiting
\* for begin, before-waiting for end) panics and calls neither
\* handle_wakeup_transition nor handle_events_cleared.
C9_EntryExitFault ==
    /\ \A a \in Activities \ {kCFRunLoopAfterWaiting} :
          Panics(control_flow_begin_handler(a))
    /\ \A a \in Activities \ {kCFRunLoopBeforeWaiting} :
          Panics(control_flow_end_handler(a))
    /\ (ret.op = "begin" /\ ret.arg # kCFRunLoopAfterWaiting) =>
          Panics(ret.result) /\ faulted /\ ~draining
    /\ (ret.op = "end" /\ ret.arg # kCFRunLoopBeforeWaiting) =>
          Panics(ret.result) /\ faulted /\ ~draining

\* the end observer was called with the exit activity
C9_Witness ==
    /\ ret.op = "end"
    /\ ret.arg = kCFRunLoopExit
    /\ faulted

\* C10: run() with the application singleton already there panics before
\* will_launch and before UIApplicationMain, which is therefore never
\* invoked a second time.
C10_RunAfterMainPanics ==
    /\ mainCalls.run + mainCalls.host <= 1
    /\ mainCalls.host = 1 => (~handler /\ eventLoop # "running")
    /\ (ret.op = "run" /\ ret.result = "panic") =>
          (application /\ ~handler /\ mainCalls.run = 0)
    /\ (ret.op = "run" /\ ret.result = "ok") => mainCalls.host = 0

\* run() panicked in a process whose host had called UIApplicationMain
C10_Witness ==
    /\ ret = Ret("run", "", "panic")
    /\ mainCalls.host = 1
    /\ ~handler

\* both observers of setup_control_flow_observers are on the run loop
BridgeObserversRegistered ==
    /\ \E i \in 1 .. Len(observers) : observers[i] = begin_observer
    /\ \E i \in 1 .. Len(observers) : observers[i] = end_observer

\* C11: when run() invokes UIApplicationMain both bridge observers are
\* already on the main run loop, put there by EventLoop::new, and the
\* handler is with AppState; in a process whose entry point was invoked by
\* run() no bridge observer is ever called without them, and run() never
\* gives the thread back.
C11_RegisteredBeforeHostEntry ==
    /\ [][(mainCalls.run = 0 /\ mainCalls'.run = 1) =>
             /\ BridgeObserversRegistered
             /\ observers' = observers
             /\ handler']_vars
    /\ []((ret.op \in {"begin", "end"} /\ mainCalls.host = 0) =>
             /\ mainCalls.run = 1
             /\ handler
             /\ BridgeObserversRegistered)
    /\ [][mainCalls.run = 1 =>
             /\ mainCalls'.run = 1
             /\ handler'
             /\ eventLoop' = "running"
             /\ rl'.state # "off"]_vars

\* the end observer was called at a sleep boundary of the loop that run()
\* started, and found the handler
C11_Witness ==
    /\ ret = Ret("end", kCFRunLoopBeforeWaiting, "handle_events_cleared")
    /\ mainCalls.run = 1
    /\ draining

\* C12: dropping a proxy, the last one included, leaves the channel, the
\* values queued in it and a pending wake-up of the run loop as they are
\* and does not close the channel: while the window target exists every
\* value sent stays queued until it is delivered, once, whatever proxies
\* were dropped, and the wake-up of a send is still taken by the waiting
\* loop after the sending proxy is gone.
C12_DropsKeepQueuedValues ==
    /\ [][(\E p \in ProxyIds :
               proxies[p].st = "live" /\ proxies'[p].st = "dropped") =>
             /\ UNCHANGED <<channel, delivered, sent, eventLoop>>
             /\ rl' = rl]_vars
    /\ [](receiverAlive =>
             \A p \in ProxyIds :
                 /\ Project(delivered \o channel, p) = Iota(sent[p])
                 /\ Len(Project(delivered, p)) <= sent[p])
    /\ []((ret.op = "send_event" /\ ret.result = "Ok") => rl.wake)
    /\ []((rl.state = "waiting" /\ rl.wake /\ ~faulted) =>
             ENABLED HostWakeUp)

\* a value was delivered after every proxy, its sender included, had been
\* dropped
C12_Witness ==
    /\ ret.op = "callback"
    /\ UsedProxies # {}
    /\ LiveProxies = {}
    /\ proxies[delivered[Len(delivered)][1]].st = "dropped"

\* C13: making a proxy, by create_proxy or by clone, adds exactly one new
\* source to the run loop and wakes the loop; the source of a live proxy is
\* registered, neither invalidated nor released, so that a successful
\* send_event signals a registered source whatever proxies were dropped.
C13_LiveProxySourceRegistered ==
    /\ [][\A q \in ProxyIds :
             (proxies[q].st = "none" /\ proxies'[q].st = "live") =>
                 /\ sources[proxies'[q].source] = NoSource
                 /\ sources'[proxies'[q].source].valid
                 /\ \A t \in SourceIds \ {proxies'[q].source} :
                        sources'[t] = sources[t]
                 /\ rl' = CFRunLoopWakeUp(rl)]_vars
    /\ [](\A p \in ProxyIds :
             proxies[p].st = "live" =>
                 /\ sources[proxies[p].source].valid
                 /\ sources[proxies[p].source].inv = 0
                 /\ sources[proxies[p].source].rel = 0)
    /\ []((ret.op = "send_event" /\ ret.result = "Ok") =>
             /\ sources[proxies[ret.arg].source].valid
             /\ sources[proxies[ret.arg].source].sig
             /\ sources[proxies[ret.arg].source].inv = 0
             /\ sources[proxies[ret.arg].source].rel = 0)

\* a clone sent a value after the proxy it was cloned from had been dropped
C13_Witness ==
    /\ ret.op = "send_event"
    /\ ret.result = "Ok"
    /\ proxies[ret.arg].origin # 0
    /\ proxies[proxies[ret.arg].origin].st = "dropped"

\* C14: a send_event that returns Ok has appended its value, signaled the
\* proxy's source and woken the run loop; one that returns EventLoopClosed,
\* the only error, has left the channel, the sources and the run loop
\* untouched.
C14_SignalAndWakeIffEnqueued ==
    /\ [](ret.op = "send_event" =>
             ret.result \in {"Ok", "EventLoopClosed"})
    /\ [][ret'.op = "send_event" =>
             IF ret'.result = "Ok"
             THEN /\ channel' =
                        Append(channel, <<ret'.arg, sent[ret'.arg] + 1>>)
                  /\ sources' =
                        [sources EXCEPT
                           ![proxies[ret'.arg].source].sig = TRUE]
                  /\ rl' = [rl EXCEPT !.wake = TRUE]
             ELSE UNCHANGED <<channel, sent, sources, rl>>]_vars

\* a send failed with no wake-up pending and no source signaled, and left
\* it so
C14_Witness ==
    /\ ret.op = "send_event"
    /\ ret.result = "EventLoopClosed"
    /\ ~rl.wake
    /\ \A s \in SourceIds : ~sources[s].sig

\* C15: no lost wake-up: whenever the loop that run() started is blocked in
\* its idle wait and the channel holds a value, a wake-up of the loop is
\* pending.
C15_NoLostWakeUp ==
    (handler /\ rl.state = "waiting" /\ channel # <<>>) => rl.wake

\* C16 as stated: the begin observer calls handle_wakeup_transition for the
\* after-waiting activity and for the entry activity alike.
C16_EntryAlsoWakes ==
    (ret.op = "begin" /\
     ret.arg \in {kCFRunLoopAfterWaiting, kCFRunLoopEntry}) =>
        /\ ret.result = "handle_wakeup_transition"
        /\ ~faulted

\* C16 as amended: the begin observer is registered for the after-waiting
\* and the entry activity; it calls handle_wakeup_transition for the
\* after-waiting activity only, and for the entry activity it calls
\* nothing and panics with unimplemented!().
C16_OnlyAfterWaitingWakes ==
    /\ begin_observer.activities =
           {kCFRunLoopAfterWaiting, kCFRunLoopEntry}
    /\ (ret.op = "begin" /\ ret.arg = kCFRunLoopAfterWaiting) =>
           /\ ret.result = "handle_wakeup_transition"
           /\ ~faulted
    /\ (ret.op = "begin" /\ ret.arg = kCFRunLoopEntry) =>
           /\ ret.result = "unimplemented"
           /\ faulted
    /\ (ret.op = "begin" /\ ret.result = "handle_wakeup_transition") =>
           ret.arg = kCFRunLoopAfterWaiting

\* the host entered the run loop in the default mode and the begin
\* observer was called with the entry activity
C16_Witness ==
    /\ ret = Ret("begin", kCFRunLoopEntry, "unimplemented")
    /\ faulted
    /\ BridgeObserversRegistered

\* C17: handle_user_events never waits for a value: a turn of its loop is
\* always possible; each callback is made for one value taken from the
\* head of the channel; the turn that finds the channel empty ends the
\* loop with no callback, after which the call makes no callback and
\* returns; a call that found nothing has made no callback; and every call
\* returns.
C17_DrainNeverWaits ==
    /\ []((draining /\ ~faulted) =>
             ENABLED (\E f \in Callbacks : handle_user_events(f)))
    /\ [][ret'.op = "callback" =>
             /\ draining /\ ~done
             /\ channel # <<>>
             /\ delivered' = Append(delivered, Head(channel))
             /\ SubSeq(channel', 1, Len(channel) - 1) = Tail(channel)
             /\ calls' = calls + 1]_vars
    /\ [][delivered' # delivered => ret'.op = "callback"]_vars
    /\ [][(draining /\ ~done /\ done') =>
             /\ channel = <<>>
             /\ UNCHANGED <<channel, delivered, calls>>]_vars
    /\ [][(draining /\ ~done /\ channel = <<>>) =>
             \/ done' /\ draining'
             \/ UNCHANGED <<done, draining, delivered, calls>>]_vars
    /\ [][(draining /\ done) =>
             /\ delivered' = delivered
             /\ draining' => UNCHANGED <<done, calls>>]_vars
    /\ []((draining /\ done /\ calls = 0) => queued = 0)
    /\ (draining ~> ~draining)

\* a call found the channel empty and is about to return without having
\* made a callback, after an earlier call had delivered a value
C17_Witness ==
    /\ draining
    /\ done
    /\ queued = 0
    /\ calls = 0
    /\ delivered # <<>>

\* C18: the values a drain left queued, sent while it ran, are delivered by
\* the drain of the next sleep boundary: the loop goes to its idle wait
\* with such values queued only from the callout of the drain that left
\* them, and then with a wake-up pending.
C18_LateValueDrainedNextCycle ==
    [][(rl.state = "callout" /\ rl'.state = "waiting" /\ late) =>
          /\ \E c \in rl.called : c.who = "end"
          /\ rl'.wake]_vars

\* C19: a drain is not cut short by the exit request: every callback is
\* handed the ControlFlow the callback before it left, nothing else
\* changes it, and with Exit in it the loop of handle_user_events still
\* delivers what is queued and ends only on an empty channel, the run loop
\* staying where it is until the call has returned.
C19_NoCancellationOfDrain ==
    /\ [][ret'.op = "callback" =>
             /\ ret'.arg.cf = control_flow
             /\ control_flow' = ret'.result]_vars
    /\ [][control_flow' # control_flow => ret'.op = "callback"]_vars
    /\ []((draining /\ ~done /\ ~faulted /\
           control_flow = Exit /\ channel # <<>>) =>
             ENABLED (\E f \in Callbacks :
                         handle_user_events(f) /\ delivered' # delivered))
    /\ [][(draining /\ control_flow = Exit) =>
             /\ done' /\ ~done => channel = <<>>
             /\ delivered' # delivered => draining'
             /\ rl'.state = rl.state]_vars

\* a callback was handed the exit request that the callback before it, in
\* the same call, had left
C19_Witness ==
    /\ draining
    /\ calls >= 2
    /\ ret.op = "callback"
    /\ ret.arg.cf = Exit

\* C20: a value the callback sends through a proxy goes to the tail of the
\* channel the running call is draining, and the call's loop ends only on
\* an empty channel: the value is delivered before the call returns, a
\* callback that has just sent is followed by another callback, and the
\* callbacks of one call are not limited to the values queued when it
\* began.
C20_CallbackSendsExtendDrain ==
    /\ [][(ret'.op = "callback" /\ ret'.arg.send # 0) =>
             /\ channel' = Append(Tail(channel),
                                  <<ret'.arg.send,
                                    sent[ret'.arg.send] + 1>>)
             /\ draining'
             /\ ~done']_vars
    /\ []((draining /\ ~done /\ ~faulted /\ channel # <<>>) =>
             /\ ENABLED (\E f \in Callbacks :
                            handle_user_events(f) /\ calls' = calls + 1)
             /\ ~ENABLED (\E f \in Callbacks :
                             handle_user_events(f) /\ done'))
    /\ [][(draining /\ done') => (done \/ channel = <<>>)]_vars

\* the callback has sent again in a call that has already made more
\* callbacks than there were values queued when it began
C20_Witness ==
    /\ draining
    /\ ~done
    /\ calls > queued
    /\ ret.op = "callback"
    /\ ret.arg.send # 0
    /\ channel # <<>>

====
